---------------------------- MODULE Spec2Model ----------------------------
(***************************************************************************)
(* The chat triage pipeline of src/main.py: classify_emotion, risk_score   *)
(* and the /api/chat handler with its two create_document calls.           *)
(*                                                                         *)
(* Text is modelled by TLA+ strings, on which Len, SubSeq and \o act as    *)
(* on sequences of characters.  Two characters of the source cannot be     *)
(* written in a TLA+ string and are transliterated everywhere below:       *)
(*     U+2019 (right single quotation mark) is written  }                  *)
(*     U+2018 (left single quotation mark)  is written  {                  *)
(* The ASCII apostrophe ' stays itself, so "can't" and "can}t" differ as   *)
(* they do in the source.                                                  *)
(*                                                                         *)
(* lower() folds the letters A-Z, the only cased characters of the texts   *)
(* modelled.                                                               *)
(*                                                                         *)
(* Scores are the source's floats in hundredths: 0.6 is 60, 0.85 is 85,    *)
(* 1.0 is 100.                                                             *)
(***************************************************************************)
EXTENDS Integers, Sequences, FiniteSets, Bags, TLC

VARIABLES
    pc,       \* pc[r]: where request r stands in chat()
    req,      \* req[r]: the ChatRequest body of r
    loc,      \* loc[r]: chat()'s locals emotion, score, reply
    db,       \* db[collection]: the bag of documents stored
    now,      \* the wall clock read by datetime.now
    calls,    \* calls[r]: the create_document calls r has made, in order
    resp,     \* resp[r]: the ChatResponse returned to r's caller
    probe,    \* the input of a pure function under check
    result    \* its output

vars == <<pc, req, loc, db, now, calls, resp, probe, result>>

\* Python's None, and a local not yet assigned
None == [none |-> TRUE]

----------------------------------------------------------------------------
(* Bounds of the model *)

MaxReq == 2
MaxClock == 1
MaxFrags == 2

Requests == 1..MaxReq
Children == {"c1", "c2"}

----------------------------------------------------------------------------
(* Constants of the program, in hundredths *)

HighFloor == 85
SecondaryFloor == 60
ScoreCap == 100
ThresholdHigh == 85
ThresholdMedium == 60

EMOJI_RESPONSES ==
    [joy     |-> "I'm happy to hear that! Want a fun fact or a joke?",
     sadness |-> "I'm here with you. Want to try a short breathing exercise together?",
     anger   |-> "That sounds frustrating. Want to label the feeling and take a 10-second pause?",
     anxiety |-> "It}s okay to feel worried. Let's try box breathing: 4-in, 4-hold, 4-out, 4-hold.",
     neutral |-> "I}m listening. Tell me more."]

RISK_KEYWORDS ==
    <<"suicide", "kill myself", "end it", "die", "self harm", "cut myself",
      "worthless", "no reason to live">>

CRISIS_REPLY ==
    "I}m really glad you told me. You matter and you deserve help. "
    \o "I}d like to help you reach a trusted adult or a professional. "
    \o "If you're in immediate danger, please call your local emergency number. "
    \o "Would you like me to share a helpful message with your parent now?"

MEDIUM_PREFIX == "I}m noticing words that sound really hard. "

MEDIUM_SUFFIX == " You can also press {I need help} to contact a trusted adult."

----------------------------------------------------------------------------
(* Strings *)

UPPER == "ABCDEFGHIJKLMNOPQRSTUVWXYZ"
LOWER == "abcdefghijklmnopqrstuvwxyz"

LowerChar(c) ==
    IF \E i \in 1..Len(UPPER) : SubSeq(UPPER, i, i) = c
    THEN LET i == CHOOSE j \in 1..Len(UPPER) : SubSeq(UPPER, j, j) = c
         IN  SubSeq(LOWER, i, i)
    ELSE c

RECURSIVE lower(_)
lower(s) ==
    IF Len(s) = 0 THEN ""
    ELSE LowerChar(SubSeq(s, 1, 1)) \o lower(SubSeq(s, 2, Len(s)))

\* Python's  kw in t
Contains(t, kw) ==
    \E i \in 1..(Len(t) - Len(kw) + 1) : SubSeq(t, i, i + Len(kw) - 1) = kw

Max(a, b) == IF a >= b THEN a ELSE b
Min(a, b) == IF a <= b THEN a ELSE b

----------------------------------------------------------------------------
(* classify_emotion and risk_score *)

\* classify_emotion with the sadness test made before the joy test
classify_emotion_SadnessFirst(text) ==
    LET t == lower(text) IN
    IF \E k \in {"sad", "down", "cry", "depressed", ":("} : Contains(t, k)
    THEN "sadness"
    ELSE IF \E k \in {"happy", "great", "good", "awesome", "yay", ":)"} : Contains(t, k)
    THEN "joy"
    ELSE IF \E k \in {"angry", "mad", "furious", "annoyed"} : Contains(t, k)
    THEN "anger"
    ELSE IF \E k \in {"worried", "anxious", "scared", "nervous", "panic"} : Contains(t, k)
    THEN "anxiety"
    ELSE "neutral"

classify_emotion(text) ==
    LET t == lower(text) IN
    IF \E k \in {"happy", "great", "good", "awesome", "yay", ":)"} : Contains(t, k)
    THEN "joy"
    ELSE IF \E k \in {"sad", "down", "cry", "depressed", ":("} : Contains(t, k)
    THEN "sadness"
    ELSE IF \E k \in {"angry", "mad", "furious", "annoyed"} : Contains(t, k)
    THEN "anger"
    ELSE IF \E k \in {"worried", "anxious", "scared", "nervous", "panic"} : Contains(t, k)
    THEN "anxiety"
    ELSE "neutral"

\* the for loop over RISK_KEYWORDS, from keyword i on, with the running score
RECURSIVE ScanRiskKeywords(_, _, _)
ScanRiskKeywords(t, i, score) ==
    IF i > Len(RISK_KEYWORDS) THEN score
    ELSE ScanRiskKeywords(t, i + 1,
            IF Contains(t, RISK_KEYWORDS[i]) THEN Max(score, HighFloor) ELSE score)

\* risk_score with the secondary lexicon added to the running score
risk_score_Compounding(text) ==
    LET t == lower(text)
        s1 == ScanRiskKeywords(t, 1, 0)
        s2 == IF \E k \in {"hopeless", "worthless", "hate myself", "can't go on"} :
                    Contains(t, k)
              THEN s1 + SecondaryFloor
              ELSE s1
    IN  Min(ScoreCap, s2)

risk_score(text) ==
    LET t == lower(text)
        s1 == ScanRiskKeywords(t, 1, 0)
        s2 == IF \E k \in {"hopeless", "worthless", "hate myself", "can't go on"} :
                    Contains(t, k)
              THEN Max(s1, SecondaryFloor)
              ELSE s1
    IN  Min(ScoreCap, s2)

----------------------------------------------------------------------------
(* The body of chat() *)

\* the branches with > in place of >=
Tier_Exclusive(score) ==
    IF score > ThresholdHigh THEN "high"
    ELSE IF score > ThresholdMedium THEN "medium"
    ELSE "none"

\* the branch of  if score >= 0.85 / elif score >= 0.6 / else
Tier(score) ==
    IF score >= ThresholdHigh THEN "high"
    ELSE IF score >= ThresholdMedium THEN "medium"
    ELSE "none"

Reply(emotion, score) ==
    LET base_reply == IF emotion \in DOMAIN EMOJI_RESPONSES
                      THEN EMOJI_RESPONSES[emotion]
                      ELSE EMOJI_RESPONSES["neutral"]
    IN  CASE Tier(score) = "high"   -> CRISIS_REPLY
          [] Tier(score) = "medium" -> MEDIUM_PREFIX \o base_reply \o MEDIUM_SUFFIX
          [] OTHER                  -> base_reply

\* the medium branch writing the schema's lowest level
RiskEventFields_LowLevel(child_id, score, t) ==
    IF Tier(score) = "high"
    THEN [child_id |-> child_id, level |-> "high",
          reason |-> "Text trigger keyword", score |-> score, occurred_at |-> t]
    ELSE [child_id |-> child_id, level |-> "low",
          reason |-> "Negative self-talk", score |-> score, occurred_at |-> t]

\* the medium branch writing the high branch's floor as its score
RiskEventFields_FloorScore(child_id, score, t) ==
    IF Tier(score) = "high"
    THEN [child_id |-> child_id, level |-> "high",
          reason |-> "Text trigger keyword", score |-> score, occurred_at |-> t]
    ELSE [child_id |-> child_id, level |-> "medium",
          reason |-> "Negative self-talk", score |-> HighFloor, occurred_at |-> t]

\* the fields passed to create_document("riskevent", ...) in the branch taken
RiskEventFields(child_id, score, t) ==
    IF Tier(score) = "high"
    THEN [child_id |-> child_id, level |-> "high",
          reason |-> "Text trigger keyword", score |-> score, occurred_at |-> t]
    ELSE [child_id |-> child_id, level |-> "medium",
          reason |-> "Negative self-talk", score |-> score, occurred_at |-> t]

MessageFields(child_id, text, emotion, score, reply) ==
    [child_id |-> child_id, text |-> text, emotion |-> emotion,
     risk_score |-> score, response |-> reply]

ChatResponse(reply, emotion, score) ==
    [response |-> reply, emotion |-> emotion, risk_score |-> score]

\* the store after a successful create_document(collection, fields)
create_document(collection, fields) ==
    [db EXCEPT ![collection] = @ (+) SetToBag({fields})]

Call(collection, fields, ok) ==
    [collection |-> collection, fields |-> fields, ok |-> ok]

----------------------------------------------------------------------------
(* Requests the model sends *)

ChatTexts ==
    {"I feel worthless and want to die",
     "I'm so angry and hopeless",
     "I'm happy today"}

\* lines 134-135 for each text the model sends, evaluated once
Analysis ==
    [t \in ChatTexts |-> [emotion |-> classify_emotion(t), score |-> risk_score(t)]]

\* chat() raising a medium score to the high floor when the child already
\* has a risk event stored
ChatBegin_Hysteresis(r, child_id, text) ==
    /\ pc[r] = "idle"
    /\ LET emotion == Analysis[text].emotion
           own     == Analysis[text].score
           score   == IF /\ Tier(own) = "medium"
                         /\ \E d \in BagToSet(db.riskevent) : d.child_id = child_id
                      THEN HighFloor
                      ELSE own
       IN  /\ req' = [req EXCEPT ![r] = [child_id |-> child_id, text |-> text]]
           /\ loc' = [loc EXCEPT ![r] = [emotion |-> emotion, score |-> score,
                                         reply |-> Reply(emotion, score)]]
           /\ pc' = [pc EXCEPT ![r] = IF Tier(score) = "none" THEN "record" ELSE "emit"]
    /\ UNCHANGED <<db, now, calls, resp, probe, result>>

\* lines 134-167 up to the first create_document call
ChatBegin(r, child_id, text) ==
    /\ pc[r] = "idle"
    /\ LET emotion == Analysis[text].emotion
           score   == Analysis[text].score
       IN  /\ req' = [req EXCEPT ![r] = [child_id |-> child_id, text |-> text]]
           /\ loc' = [loc EXCEPT ![r] = [emotion |-> emotion, score |-> score,
                                         reply |-> Reply(emotion, score)]]
           /\ pc' = [pc EXCEPT ![r] = IF Tier(score) = "none" THEN "record" ELSE "emit"]
    /\ UNCHANGED <<db, now, calls, resp, probe, result>>

\* the high branch falling through into the medium branch (if in place of elif)
RiskEventWrite_FallThrough(r) ==
    /\ pc[r] = "emit"
    /\ LET fields == RiskEventFields(req[r].child_id, loc[r].score, now)
           second == [fields EXCEPT !.level = "medium", !.reason = "Negative self-talk"]
       IN
       \/ /\ Tier(loc[r].score) = "high"
          /\ db' = [db EXCEPT !["riskevent"] = @ (+) SetToBag({fields}) (+) SetToBag({second})]
          /\ calls' = [calls EXCEPT ![r] = @ \o <<Call("riskevent", fields, TRUE),
                                                  Call("riskevent", second, TRUE)>>]
          /\ pc' = [pc EXCEPT ![r] = "record"]
       \/ /\ Tier(loc[r].score) # "high"
          /\ db' = create_document("riskevent", fields)
          /\ calls' = [calls EXCEPT ![r] = Append(@, Call("riskevent", fields, TRUE))]
          /\ pc' = [pc EXCEPT ![r] = "record"]
       \/ /\ calls' = [calls EXCEPT ![r] = Append(@, Call("riskevent", fields, FALSE))]
          /\ pc' = [pc EXCEPT ![r] = "failed"]
          /\ UNCHANGED db
    /\ UNCHANGED <<req, loc, now, resp, probe, result>>

\* the risk branches returning the reply without recording the message
RiskEventWrite_ShortCircuit(r) ==
    /\ pc[r] = "emit"
    /\ LET fields == RiskEventFields(req[r].child_id, loc[r].score, now) IN
       \/ /\ db' = create_document("riskevent", fields)
          /\ calls' = [calls EXCEPT ![r] = Append(@, Call("riskevent", fields, TRUE))]
          /\ resp' = [resp EXCEPT ![r] =
                         ChatResponse(loc[r].reply, loc[r].emotion, loc[r].score)]
          /\ pc' = [pc EXCEPT ![r] = "done"]
       \/ /\ calls' = [calls EXCEPT ![r] = Append(@, Call("riskevent", fields, FALSE))]
          /\ pc' = [pc EXCEPT ![r] = "failed"]
          /\ UNCHANGED <<db, resp>>
    /\ UNCHANGED <<req, loc, now, probe, result>>

\* create_document("riskevent", ...) of lines 147 and 159: it returns or raises
RiskEventWrite(r) ==
    /\ pc[r] = "emit"
    /\ LET fields == RiskEventFields(req[r].child_id, loc[r].score, now) IN
       \/ /\ db' = create_document("riskevent", fields)
          /\ calls' = [calls EXCEPT ![r] = Append(@, Call("riskevent", fields, TRUE))]
          /\ pc' = [pc EXCEPT ![r] = "record"]
       \/ /\ calls' = [calls EXCEPT ![r] = Append(@, Call("riskevent", fields, FALSE))]
          /\ pc' = [pc EXCEPT ![r] = "failed"]
          /\ UNCHANGED db
    /\ UNCHANGED <<req, loc, now, resp, probe, result>>

\* the message write wrapped in try/except: the reply is returned either way
MessageWrite_BestEffort(r) ==
    /\ pc[r] = "record"
    /\ LET fields == MessageFields(req[r].child_id, req[r].text, loc[r].emotion,
                                   loc[r].score, loc[r].reply) IN
       \/ /\ db' = create_document("message", fields)
          /\ calls' = [calls EXCEPT ![r] = Append(@, Call("message", fields, TRUE))]
       \/ /\ calls' = [calls EXCEPT ![r] = Append(@, Call("message", fields, FALSE))]
          /\ UNCHANGED db
    /\ resp' = [resp EXCEPT ![r] =
                   ChatResponse(loc[r].reply, loc[r].emotion, loc[r].score)]
    /\ pc' = [pc EXCEPT ![r] = "done"]
    /\ UNCHANGED <<req, loc, now, probe, result>>

\* the message recorded at the top of chat(), before the risk branches
MessageWrite_BeforeEmitter(r) ==
    LET fields == MessageFields(req[r].child_id, req[r].text, loc[r].emotion,
                                loc[r].score, loc[r].reply)
        recorded == \E i \in DOMAIN calls[r] : calls[r][i].collection = "message"
        return == /\ resp' = [resp EXCEPT ![r] =
                        ChatResponse(loc[r].reply, loc[r].emotion, loc[r].score)]
                  /\ pc' = [pc EXCEPT ![r] = "done"]
    IN
    /\ \/ /\ pc[r] = "emit" /\ ~recorded
          /\ db' = create_document("message", fields)
          /\ calls' = [calls EXCEPT ![r] = Append(@, Call("message", fields, TRUE))]
          /\ UNCHANGED <<pc, resp>>
       \/ /\ pc[r] = "record" /\ ~recorded
          /\ db' = create_document("message", fields)
          /\ calls' = [calls EXCEPT ![r] = Append(@, Call("message", fields, TRUE))]
          /\ return
       \/ /\ pc[r] = "record" /\ recorded
          /\ return
          /\ UNCHANGED <<db, calls>>
       \/ /\ pc[r] \in {"emit", "record"} /\ ~recorded
          /\ calls' = [calls EXCEPT ![r] = Append(@, Call("message", fields, FALSE))]
          /\ pc' = [pc EXCEPT ![r] = "failed"]
          /\ UNCHANGED <<db, resp>>
    /\ UNCHANGED <<req, loc, now, probe, result>>

\* create_document("message", ...) of line 170 and the return of line 178
MessageWrite(r) ==
    /\ pc[r] = "record"
    /\ LET fields == MessageFields(req[r].child_id, req[r].text, loc[r].emotion,
                                   loc[r].score, loc[r].reply) IN
       \/ /\ db' = create_document("message", fields)
          /\ calls' = [calls EXCEPT ![r] = Append(@, Call("message", fields, TRUE))]
          /\ resp' = [resp EXCEPT ![r] =
                         ChatResponse(loc[r].reply, loc[r].emotion, loc[r].score)]
          /\ pc' = [pc EXCEPT ![r] = "done"]
       \/ /\ calls' = [calls EXCEPT ![r] = Append(@, Call("message", fields, FALSE))]
          /\ pc' = [pc EXCEPT ![r] = "failed"]
          /\ UNCHANGED <<db, resp>>
    /\ UNCHANGED <<req, loc, now, probe, result>>

Tick ==
    /\ now < MaxClock
    /\ now' = now + 1
    /\ UNCHANGED <<pc, req, loc, db, calls, resp, probe, result>>

ChatInit ==
    /\ pc = [r \in Requests |-> "idle"]
    /\ req = [r \in Requests |-> None]
    /\ loc = [r \in Requests |-> None]
    /\ db = [message |-> EmptyBag, riskevent |-> EmptyBag]
    /\ now = 0
    /\ calls = [r \in Requests |-> <<>>]
    /\ resp = [r \in Requests |-> None]

Init ==
    /\ ChatInit
    /\ probe = None
    /\ result = None

Next ==
    \/ \E r \in Requests, c \in Children, t \in ChatTexts : ChatBegin(r, c, t)
    \/ \E r \in Requests : RiskEventWrite(r)
    \/ \E r \in Requests : MessageWrite(r)
    \/ Tick

Spec == Init /\ [][Next]_vars

\* A request that has entered chat() runs on: each create_document call is
\* made, and returns or raises.  Requests need not arrive, the clock need not
\* advance.
FairSpec ==
    /\ Spec
    /\ \A r \in Requests : WF_vars(RiskEventWrite(r)) /\ WF_vars(MessageWrite(r))

----------------------------------------------------------------------------
(* classify_emotion and risk_score over a bounded set of texts *)

Fragments ==
    {"sad", "ly ", "GOOD", " but ", "Mad", "die", "t", "Hopeless", "worthless",
     "hate ", "myself", "kill ", "end ", "it", "worried", "can't go on",
     "can}t go on", ":(", "No Reason", " to live"}

Sentences ==
    ChatTexts \cup
    {"I want to kill myself", "I feel hopeless", "I had a great day",
     "good but sad", "SUICIDE", "so hopeless I want to die or END IT", "I Hate Myself, I am so nervous",
     "we made a crusade downtown", "the soldier was furious and panicked"}

RECURSIVE TextsUpTo(_)
TextsUpTo(n) ==
    IF n = 0 THEN {""}
    ELSE LET shorter == TextsUpTo(n - 1)
         IN  shorter \cup {p \o f : p \in shorter, f \in Fragments}

Texts == TextsUpTo(MaxFrags) \cup Sentences

\* lines 134-135 of chat(), applied to the probed text
Analyze ==
    /\ result = None
    /\ result' = [emotion |-> classify_emotion(probe.text),
                  score   |-> risk_score(probe.text)]
    /\ UNCHANGED <<pc, req, loc, db, now, calls, resp, probe>>

InitText ==
    /\ ChatInit
    /\ probe \in {[text |-> t] : t \in Texts}
    /\ result = None

SpecText == InitText /\ [][Analyze]_vars

----------------------------------------------------------------------------
(* The decision table of chat() over every label and every score *)

Labels == {"joy", "sadness", "anger", "anxiety", "neutral"}
Scores == 0..ScoreCap

\* lines 137-167 of chat(), applied to the probed emotion and score
Compose ==
    /\ result = None
    /\ result' = [reply |-> Reply(probe.emotion, probe.score),
                  tier  |-> Tier(probe.score)]
    /\ UNCHANGED <<pc, req, loc, db, now, calls, resp, probe>>

InitCompose ==
    /\ ChatInit
    /\ probe \in {[emotion |-> e, score |-> s] : e \in Labels, s \in Scores}
    /\ result = None

SpecCompose == InitCompose /\ [][Compose]_vars

----------------------------------------------------------------------------
(* What the claims speak of *)

Started(r) == pc[r] # "idle"
Ended(r) == pc[r] \in {"done", "failed"}

\* the positions in calls[r] of r's calls on a collection
CallsOn(r, collection) ==
    {i \in DOMAIN calls[r] : calls[r][i].collection = collection}

\* the positions of r's calls on a collection that returned
WritesOn(r, collection) ==
    {i \in CallsOn(r, collection) : calls[r][i].ok}

\* the score, the emotion and the tier of the request as its text decides them
OwnScore(r) == Analysis[req[r].text].score
OwnEmotion(r) == Analysis[req[r].text].emotion
OwnTier(r) ==
    IF OwnScore(r) >= 85 THEN "high"
    ELSE IF OwnScore(r) >= 60 THEN "medium"
    ELSE "none"

\* a document stored in a collection is the fields of a call that returned
Stored(collection) ==
    \A d \in BagToSet(db[collection]) :
        \E r \in Requests : \E i \in WritesOn(r, collection) : calls[r][i].fields = d

----------------------------------------------------------------------------
(* C1: for every chat request, with score = risk_score(text), a riskevent  *)
(* write is made with level "high" and reason "Text trigger keyword"       *)
(* exactly when score >= 0.85, with level "medium" and reason "Negative    *)
(* self-talk" exactly when 0.6 <= score < 0.85, and no riskevent write is  *)
(* made when score < 0.6; no other level is ever written.  A write is made *)
(* when create_document is called; the documents stored are those of the   *)
(* calls that returned.                                                    *)
C1_RiskEventByScore ==
    /\ \A r \in Requests :
        /\ pc[r] \in {"idle", "emit"} => CallsOn(r, "riskevent") = {}
        /\ pc[r] \in {"record", "done", "failed"} =>
            LET made == {calls[r][i].fields : i \in CallsOn(r, "riskevent")}
                s == OwnScore(r)
            IN  /\ Cardinality(CallsOn(r, "riskevent")) <= 1
                /\ (\E d \in made : d.level = "high") <=> s >= 85
                /\ (\E d \in made : d.level = "medium") <=> (s >= 60 /\ s < 85)
                /\ s < 60 => made = {}
                /\ \A d \in made :
                    /\ d.level \in {"high", "medium"}
                    /\ d.level = "high" => d.reason = "Text trigger keyword"
                    /\ d.level = "medium" => d.reason = "Negative self-talk"
    /\ Stored("riskevent")
    /\ \A r \in Requests : \A i \in WritesOn(r, "riskevent") :
            BagIn(calls[r][i].fields, db.riskevent)
    /\ \A d \in BagToSet(db.riskevent) : d.level \in {"high", "medium"}

C1_Witness ==
    \E r1, r2 \in Requests :
        /\ \E d \in BagToSet(db.riskevent) :
            d.level = "high" /\ \E i \in WritesOn(r1, "riskevent") : calls[r1][i].fields = d
        /\ \E d \in BagToSet(db.riskevent) :
            d.level = "medium" /\ \E i \in WritesOn(r2, "riskevent") : calls[r2][i].fields = d

(* C2 as stated: for every chat request whose tier is medium or high the   *)
(* message write is attempted as well as the riskevent write, also when a  *)
(* persistence call fails.                                                 *)
C2_BothWritesAttempted ==
    \A r \in Requests :
        (Ended(r) /\ OwnTier(r) # "none") =>
            /\ CallsOn(r, "riskevent") # {}
            /\ CallsOn(r, "message") # {}

(* C2 as amended: for every ended chat request whose tier is medium or     *)
(* high the riskevent write was attempted, and the message write was       *)
(* attempted exactly when the riskevent write returned; a riskevent write  *)
(* that raises ends the request before the message write.                  *)
C2_MessageAfterRiskEventReturns ==
    \A r \in Requests :
        (Ended(r) /\ OwnTier(r) # "none") =>
            /\ CallsOn(r, "riskevent") # {}
            /\ CallsOn(r, "message") # {} <=> WritesOn(r, "riskevent") # {}

C2_Witness ==
    \E r \in Requests :
        /\ Ended(r) /\ OwnTier(r) # "none"
        /\ WritesOn(r, "riskevent") # {}
        /\ CallsOn(r, "message") # {}

(* C3: in every reachable state of the store every persisted RiskEvent's   *)
(* score equals risk_score(text) of its originating request, and equals    *)
(* the risk_score of that request's message document and of its returned   *)
(* ChatResponse.                                                           *)
C3_RiskEventScoreIsMessageScore ==
    /\ Stored("riskevent")
    /\ Stored("message")
    /\ \A r \in Requests : \A i \in CallsOn(r, "riskevent") :
        LET event == calls[r][i].fields IN
        /\ event.score = OwnScore(r)
        /\ \A j \in CallsOn(r, "message") : calls[r][j].fields.risk_score = event.score
        /\ resp[r] # None => resp[r].risk_score = event.score

C3_Witness ==
    \E r \in Requests :
        /\ WritesOn(r, "riskevent") # {}
        /\ WritesOn(r, "message") # {}
        /\ resp[r] # None
        /\ \E d \in BagToSet(db.riskevent) : d.score = 60

(* C4: each request has produced at most one riskevent document, each      *)
(* request that returned a response has produced exactly one message       *)
(* document, the store holds exactly the documents the requests produced,  *)
(* and both collections only grow.                                         *)
RECURSIVE SumOver(_, _)
SumOver(S, collection) ==
    IF S = {} THEN 0
    ELSE LET r == CHOOSE x \in S : TRUE
         IN  Cardinality(WritesOn(r, collection)) + SumOver(S \ {r}, collection)

C4_OneDocumentEachOnlyGrowing ==
    /\ [](\A r \in Requests :
            /\ Cardinality(WritesOn(r, "riskevent")) <= 1
            /\ Cardinality(WritesOn(r, "message")) <= 1
            /\ resp[r] # None => Cardinality(WritesOn(r, "message")) = 1)
    /\ [](/\ BagCardinality(db.riskevent) = SumOver(Requests, "riskevent")
          /\ BagCardinality(db.message) = SumOver(Requests, "message"))
    /\ [][/\ db.riskevent \sqsubseteq db'.riskevent
          /\ db.message \sqsubseteq db'.message]_vars

C4_Witness ==
    /\ \A r \in Requests : resp[r] # None /\ Cardinality(WritesOn(r, "riskevent")) = 1
    /\ BagCardinality(db.message) = MaxReq
    /\ BagCardinality(db.riskevent) = MaxReq

(* C5: on any persistence failure during a chat turn the request ends in   *)
(* failure and returns no ChatResponse; a ChatResponse is returned only    *)
(* after every persistence call of the request has succeeded, and it       *)
(* carries the complete reply, emotion and risk_score.                     *)
C5_NoResponseOnFailure ==
    \A r \in Requests :
        /\ (\E i \in DOMAIN calls[r] : ~calls[r][i].ok) =>
                pc[r] = "failed" /\ resp[r] = None
        /\ pc[r] = "failed" => resp[r] = None
        /\ resp[r] # None =>
            /\ pc[r] = "done"
            /\ \A i \in DOMAIN calls[r] : calls[r][i].ok
            /\ WritesOn(r, "message") # {}
            /\ OwnTier(r) # "none" => WritesOn(r, "riskevent") # {}
            /\ resp[r] = [response   |-> Reply(OwnEmotion(r), OwnScore(r)),
                          emotion    |-> OwnEmotion(r),
                          risk_score |-> OwnScore(r)]

C5_Witness ==
    \E r1, r2 \in Requests :
        /\ pc[r1] = "failed" /\ CallsOn(r1, "message") # {} /\ resp[r1] = None
        /\ pc[r2] = "done" /\ resp[r2] # None

(* C6: the decision table holds for every emotion label and every score:   *)
(* score >= 0.85 gives the fixed crisis message, the same for all labels   *)
(* and not containing the label's base reply; 0.6 <= score < 0.85 gives    *)
(* the fixed prefix + the base reply + the fixed suffix; score < 0.6 gives *)
(* exactly the base reply.  0.6 and 0.85 belong to the upper tier.         *)
C6_DecisionTable ==
    result # None =>
        LET base == EMOJI_RESPONSES[probe.emotion]
            s == probe.score
        IN  /\ s >= 85 =>
                /\ result.tier = "high"
                /\ result.reply = CRISIS_REPLY
                /\ \A e \in Labels : ~Contains(result.reply, EMOJI_RESPONSES[e])
            /\ (s >= 60 /\ s < 85) =>
                /\ result.tier = "medium"
                /\ result.reply = MEDIUM_PREFIX \o base \o MEDIUM_SUFFIX
            /\ s < 60 =>
                /\ result.tier = "none"
                /\ result.reply = base

C6_Witness ==
    /\ result # None
    /\ probe.score = 85
    /\ probe.emotion = "anxiety"
    /\ result.tier = "high"

(* C7: for every text risk_score is in [0.0, 1.0], and is 0.85 if any      *)
(* RISK_KEYWORDS entry occurs in the lowercased text, whatever else        *)
(* matches; 0.6 if none does but "hopeless", "worthless", "hate myself"    *)
(* or "can't go on" occurs; 0.0 otherwise.                                 *)
C7_RiskScoreValue ==
    result # None =>
        LET t == lower(probe.text)
            high == \E i \in DOMAIN RISK_KEYWORDS : Contains(t, RISK_KEYWORDS[i])
            secondary == \E k \in {"hopeless", "worthless", "hate myself", "can't go on"} :
                            Contains(t, k)
        IN  /\ result.score \in 0..100
            /\ result.score = IF high THEN 85 ELSE IF secondary THEN 60 ELSE 0
            /\ probe.text = "I want to kill myself" => result.score = 85
            /\ probe.text = "Hopelessdie" => result.score = 85
            /\ probe.text = "I feel hopeless" => result.score = 60
            /\ probe.text = "I had a great day" => result.score = 0
            /\ probe.text = "can}t go on" => result.score = 0

C7_Witness ==
    /\ result # None
    /\ Cardinality({i \in DOMAIN RISK_KEYWORDS :
                        Contains(lower(probe.text), RISK_KEYWORDS[i])}) >= 2
    /\ Contains(lower(probe.text), "hopeless")
    /\ result.score = 85

(* C8: for every text classify_emotion returns one of joy, sadness, anger, *)
(* anxiety, neutral: the first label in the order joy, sadness, anger,     *)
(* anxiety whose keyword set has a case-insensitive substring match, and   *)
(* neutral exactly when no keyword of any set matches.                     *)
LabelOrder == <<"joy", "sadness", "anger", "anxiety">>

LabelKeywords ==
    [joy     |-> {"happy", "great", "good", "awesome", "yay", ":)"},
     sadness |-> {"sad", "down", "cry", "depressed", ":("},
     anger   |-> {"angry", "mad", "furious", "annoyed"},
     anxiety |-> {"worried", "anxious", "scared", "nervous", "panic"}]

Matching(text) ==
    {i \in DOMAIN LabelOrder :
        \E k \in LabelKeywords[LabelOrder[i]] : Contains(lower(text), k)}

C8_FirstMatchingLabel ==
    result # None =>
        LET hits == Matching(probe.text) IN
        /\ result.emotion \in Labels
        /\ result.emotion = "neutral" <=> hits = {}
        /\ hits # {} =>
            result.emotion = LabelOrder[CHOOSE i \in hits : \A j \in hits : i <= j]
        /\ probe.text = "good but sad" => result.emotion = "joy"
        /\ probe.text = "GOODMad" => result.emotion = "joy"
        /\ probe.text = "sadly " => result.emotion = "sadness"
        /\ probe.text = "" => result.emotion = "neutral"

C8_Witness ==
    /\ result # None
    /\ {1, 2} \subseteq Matching(probe.text)
    /\ result.emotion = "joy"

(* C9 as stated: each request's emotion, risk_score, reply, tier and the   *)
(* contents of the documents it writes are determined solely by its own    *)
(* child_id and text.                                                      *)
SameOutcome(r1, r2) ==
    /\ loc[r1].emotion = loc[r2].emotion
    /\ loc[r1].score = loc[r2].score
    /\ loc[r1].reply = loc[r2].reply
    /\ (resp[r1] # None /\ resp[r2] # None) => resp[r1] = resp[r2]

C9_DocumentsDeterminedByRequest ==
    \A r1, r2 \in Requests :
        (Started(r1) /\ Started(r2)) =>
            /\ req[r1].text = req[r2].text => SameOutcome(r1, r2)
            /\ req[r1] = req[r2] =>
                \A i \in DOMAIN calls[r1] \cap DOMAIN calls[r2] :
                    /\ calls[r1][i].collection = calls[r2][i].collection
                    /\ calls[r1][i].fields = calls[r2][i].fields

(* C9 as amended: each request's emotion, risk_score, reply, tier and the  *)
(* contents of the documents it writes, the riskevent's occurred_at        *)
(* excepted, are determined solely by its own child_id and text;           *)
(* occurred_at is the wall-clock time of the write.                        *)
Timeless(fields) ==
    [k \in DOMAIN fields \ {"occurred_at"} |-> fields[k]]

C9_DeterminedButForTimestamp ==
    \A r1, r2 \in Requests :
        (Started(r1) /\ Started(r2)) =>
            /\ req[r1].text = req[r2].text => SameOutcome(r1, r2)
            /\ req[r1] = req[r2] =>
                \A i \in DOMAIN calls[r1] \cap DOMAIN calls[r2] :
                    /\ calls[r1][i].collection = calls[r2][i].collection
                    /\ Timeless(calls[r1][i].fields) = Timeless(calls[r2][i].fields)
                    /\ calls[r1][i].collection = "riskevent" =>
                        calls[r1][i].fields.occurred_at \in 0..now

C9_Witness ==
    \E r1, r2 \in Requests :
        /\ r1 # r2
        /\ req[r1] = req[r2]
        /\ pc[r1] = "done" /\ pc[r2] = "done"
        /\ \E i \in WritesOn(r1, "riskevent") : \E j \in WritesOn(r2, "riskevent") :
            calls[r1][i].fields.occurred_at # calls[r2][j].fields.occurred_at

(* C10: within one chat request the message write is never attempted       *)
(* before that request's riskevent write (if any) has completed, and in    *)
(* every execution without persistence failure the message write is        *)
(* eventually performed, for tiers none, medium and high alike.            *)
C10_MessageAfterEmitter ==
    /\ [](\A r \in Requests : \A i \in CallsOn(r, "message") :
            IF OwnTier(r) = "none"
            THEN i = 1
            ELSE /\ i = 2
                 /\ calls[r][1].collection = "riskevent"
                 /\ calls[r][1].ok)
    /\ \A r \in Requests :
        (pc[r] \in {"emit", "record"}) ~>
            (pc[r] = "failed" \/ WritesOn(r, "message") # {})

C10_Witness ==
    \E r1, r2 \in Requests :
        /\ Started(r1) /\ OwnTier(r1) = "high" /\ WritesOn(r1, "message") = {2}
        /\ Started(r2) /\ OwnTier(r2) = "none" /\ WritesOn(r2, "message") = {1}

=============================================================================
